---- MODULE Spec2Model ----
(***************************************************************************)
(* Model of src/main.py: the weather comparison script for Astana and      *)
(* Almaty.  The script is one straight-line run:                           *)
(*   lines  94-110  normalise the rows read from the CSV file,             *)
(*   lines 113-123  build one daily series per city (make_series),         *)
(*   lines 131-147  pick the comparison date and the more comfortable city.*)
(* Text cells are sequences of characters; a character outside ASCII is    *)
(* written by its code point ("U+2014" is the em-dash).  Floating point    *)
(* numbers are pairs <<n, d>>: the rational n/d when d > 0, and the three  *)
(* IEEE specials when d = 0.  Timestamps are proleptic Gregorian ordinals  *)
(* (days, as datetime.date.toordinal); the date column has a resolution of *)
(* one day, as the data written by load_city has.                          *)
(***************************************************************************)
EXTENDS Integers, Sequences, FiniteSets, TLC

VARIABLES
    pc,            \* the statement of the script that runs next
    df,            \* the table `df`: a sequence of rows [date, city, temperature]
    parsed_dates,  \* the Series `parsed_dates` of lines 100-106
    printed,       \* the dates printed under "Плохие даты (первые 10):"
    s_ast,         \* the Series `s_ast`: a sequence of <<date, value>>
    s_alm,         \* the Series `s_alm`
    last_date,     \* `last_date`
    t_ast,         \* `t_ast`
    t_alm,         \* `t_alm`
    season,        \* `season`
    winner,        \* `winner`
    err            \* the exception that ended the run, "" while there is none

vars == <<pc, df, parsed_dates, printed, s_ast, s_alm, last_date, t_ast, t_alm,
          season, winner, err>>

(***************************************************************************)
(* Floating point values                                                   *)
(***************************************************************************)
NaN    == <<0, 0>>
PosInf == <<1, 0>>
NegInf == <<-1, 0>>

Num(n) == <<n, 1>>

IsNaN(v)    == v[2] = 0 /\ v[1] = 0
IsFinite(v) == v[2] > 0

\* v as an extended real for comparison: the sign of an infinity
InfSign(v) == IF v[2] > 0 THEN 0 ELSE v[1]

\* a < b as the float comparison does it: false as soon as one side is NaN
Lt(a, b) ==
    /\ ~IsNaN(a)
    /\ ~IsNaN(b)
    /\ IF IsFinite(a) /\ IsFinite(b)
          THEN a[1] * b[2] < b[1] * a[2]
          ELSE InfSign(a) < InfSign(b)

\* a == b on floats
FEq(a, b) ==
    /\ ~IsNaN(a)
    /\ ~IsNaN(b)
    /\ IF IsFinite(a) /\ IsFinite(b)
          THEN a[1] * b[2] = b[1] * a[2]
          ELSE InfSign(a) = InfSign(b)

Gt(a, b) == Lt(b, a)
Le(a, b) == Lt(a, b) \/ FEq(a, b)

\* a - b
FSub(a, b) ==
    IF IsNaN(a) \/ IsNaN(b) THEN NaN
    ELSE IF IsFinite(a) /\ IsFinite(b)
            THEN <<a[1] * b[2] - b[1] * a[2], a[2] * b[2]>>
    ELSE IF IsFinite(b) THEN a
    ELSE IF IsFinite(a) THEN <<-b[1], 0>>
    ELSE IF a = b THEN NaN ELSE a

\* abs(a)
FAbs(a) ==
    IF IsFinite(a) THEN <<IF a[1] < 0 THEN -a[1] ELSE a[1], a[2]>>
    ELSE IF IsNaN(a) THEN NaN ELSE PosInf

(***************************************************************************)
(* Calendar: Timestamp.month of an ordinal                                 *)
(***************************************************************************)
IsLeap(y) == (y % 4 = 0) /\ ((y % 100 /= 0) \/ (y % 400 = 0))

DaysInMonth(y, m) ==
    IF m = 2 THEN (IF IsLeap(y) THEN 29 ELSE 28)
    ELSE IF m \in {4, 6, 9, 11} THEN 30 ELSE 31

DaysBeforeYear(y) ==
    365 * (y - 1) + ((y - 1) \div 4) - ((y - 1) \div 100) + ((y - 1) \div 400)

RECURSIVE DaysBeforeMonth(_, _)
DaysBeforeMonth(y, m) ==
    IF m = 1 THEN 0 ELSE DaysBeforeMonth(y, m - 1) + DaysInMonth(y, m - 1)

Ordinal(y, m, d) == DaysBeforeYear(y) + DaysBeforeMonth(y, m) + d

Years == 2023..2025

YearOf(n) ==
    CHOOSE y \in Years : DaysBeforeYear(y) < n /\ n <= DaysBeforeYear(y + 1)

MonthOf(n) ==
    LET y == YearOf(n)
        k == n - DaysBeforeYear(y)
    IN  CHOOSE m \in 1..12 :
            DaysBeforeMonth(y, m) < k /\ k <= DaysBeforeMonth(y, m) + DaysInMonth(y, m)

(***************************************************************************)
(* Constants of the script                                                 *)
(***************************************************************************)
Astana == <<"A", "s", "t", "a", "n", "a">>
Almaty == <<"A", "l", "m", "a", "t", "y">>

\* pd.NaT, and the ordinal of no date
NaT == 0

\* the empty Series, before make_series has returned
NoSeries == <<>>

(***************************************************************************)
(* The normaliser, lines 94-110                                            *)
(***************************************************************************)
\* pd.NA in a "string" column
NA == <<"<NA>">>

IsSpace(c) == c \in {" ", "\t"}

RECURSIVE LStrip(_)
LStrip(t) == IF t /= <<>> /\ IsSpace(Head(t)) THEN LStrip(Tail(t)) ELSE t

RECURSIVE RStrip(_)
RStrip(t) ==
    IF t /= <<>> /\ IsSpace(t[Len(t)]) THEN RStrip(SubSeq(t, 1, Len(t) - 1)) ELSE t

\* .str.strip() of one cell
Strip(t) == IF t = NA THEN NA ELSE RStrip(LStrip(t))

\* the keys of CITY_ALIAS: "Астана", "Нур-Султан", "Алматы", "Алма-Ата"
AliasAstana1 == <<"U+0410", "U+0441", "U+0442", "U+0430", "U+043D", "U+0430">>
AliasAstana2 == <<"U+041D", "U+0443", "U+0440", "-", "U+0421", "U+0443", "U+043B",
                  "U+0442", "U+0430", "U+043D">>
AliasAlmaty1 == <<"U+0410", "U+043B", "U+043C", "U+0430", "U+0442", "U+044B">>
AliasAlmaty2 == <<"U+0410", "U+043B", "U+043C", "U+0430", "-", "U+0410", "U+0442",
                  "U+0430">>

CITY_ALIAS ==
    {<<AliasAstana1, Astana>>, <<AliasAstana2, Astana>>,
     <<AliasAlmaty1, Almaty>>, <<AliasAlmaty2, Almaty>>}

\* .replace(CITY_ALIAS) of one cell: a cell that is a key is replaced by its
\* value, any other cell is kept
ReplaceAlias(t) ==
    IF \E a \in CITY_ALIAS : a[1] = t
       THEN (CHOOSE a \in CITY_ALIAS : a[1] = t)[2]
       ELSE t

\* bad_tokens without its None: "", "...", "—", "-", "NaN", "nan"
bad_tokens ==
    {<<>>, <<".", ".", ".">>, <<"U+2014">>, <<"-">>, <<"N", "a", "N">>,
     <<"n", "a", "n">>}

\* df["date"].isin(bad_tokens) of one cell; whether the None of bad_tokens
\* matches a missing cell depends on the storage of the string column
IsIn(t, none_matches_na) == IF t = NA THEN none_matches_na ELSE t \in bad_tokens

Digits == {"0", "1", "2", "3", "4", "5", "6", "7", "8", "9"}

DigitVal(c) ==
    CASE c = "0" -> 0 [] c = "1" -> 1 [] c = "2" -> 2 [] c = "3" -> 3 [] c = "4" -> 4
      [] c = "5" -> 5 [] c = "6" -> 6 [] c = "7" -> 7 [] c = "8" -> 8 [] c = "9" -> 9

AllDigits(t) == \A i \in 1..Len(t) : t[i] \in Digits

RECURSIVE NatVal(_)
NatVal(t) == IF t = <<>> THEN 0 ELSE 10 * NatVal(SubSeq(t, 1, Len(t) - 1)) + DigitVal(t[Len(t)])

ValidDate(y, m, d) == y >= 1 /\ m \in 1..12 /\ d >= 1 /\ d <= DaysInMonth(y, m)

\* the fields <<year, month, day>> of a date text, <<>> when it has none:
\* YYYY-MM-DD is read as ISO, DD.MM.YYYY and DD/MM/YYYY day first
DateFields(t) ==
    IF Len(t) /= 10 THEN <<>>
    ELSE IF /\ t[5] = "-" /\ t[8] = "-"
            /\ AllDigits(SubSeq(t, 1, 4) \o SubSeq(t, 6, 7) \o SubSeq(t, 9, 10))
            THEN <<NatVal(SubSeq(t, 1, 4)), NatVal(SubSeq(t, 6, 7)), NatVal(SubSeq(t, 9, 10))>>
    ELSE IF /\ t[3] \in {".", "/"} /\ t[6] = t[3]
            /\ AllDigits(SubSeq(t, 1, 2) \o SubSeq(t, 4, 5) \o SubSeq(t, 7, 10))
            THEN <<NatVal(SubSeq(t, 7, 10)), NatVal(SubSeq(t, 4, 5)), NatVal(SubSeq(t, 1, 2))>>
    ELSE <<>>

\* pd.to_datetime(..., errors="coerce", format="mixed", dayfirst=True) of one
\* cell: NaT for a missing cell and for a text that is no date
ToDatetime(t) ==
    IF t = NA THEN NaT
    ELSE LET f == DateFields(t)
         IN  IF f /= <<>> /\ ValidDate(f[1], f[2], f[3])
                THEN Ordinal(f[1], f[2], f[3])
                ELSE NaT

Lower(c) ==
    CASE c = "I" -> "i" [] c = "N" -> "n" [] c = "F" -> "f" [] c = "A" -> "a"
      [] OTHER -> c

\* the position of the decimal point of a text, 0 when it has none
PointAt(t) ==
    IF \E i \in 1..Len(t) : t[i] = "."
       THEN CHOOSE i \in 1..Len(t) : t[i] = "." /\ \A j \in 1..(i - 1) : t[j] /= "."
       ELSE 0

RECURSIVE Pow10(_)
Pow10(n) == IF n = 0 THEN 1 ELSE 10 * Pow10(n - 1)

\* an unsigned decimal text as a number, NaN when it is none
Unsigned(t) ==
    LET p == PointAt(t)
        whole == IF p = 0 THEN t ELSE SubSeq(t, 1, p - 1)
        frac  == IF p = 0 THEN <<>> ELSE SubSeq(t, p + 1, Len(t))
    IN  IF [i \in 1..Len(t) |-> Lower(t[i])] = <<"i", "n", "f">> THEN PosInf
        ELSE IF Len(whole) + Len(frac) > 0 /\ AllDigits(whole) /\ AllDigits(frac)
                THEN <<NatVal(whole \o frac), Pow10(Len(frac))>>
        ELSE NaN

\* pd.to_numeric(..., errors="coerce") of one cell
ToNumeric(t) ==
    IF t = NA \/ t = <<>> THEN NaN
    ELSE IF Head(t) \in {"-", "+"}
            THEN LET u == Unsigned(Tail(t))
                 IN  IF Head(t) = "-" THEN <<-u[1], u[2]>> ELSE u
    ELSE Unsigned(t)

\* .head(10) of the bad dates
HeadLimit == 10

Head10(s) == SubSeq(s, 1, IF Len(s) < HeadLimit THEN Len(s) ELSE HeadLimit)

(***************************************************************************)
(* make_series, lines 113-120                                              *)
(***************************************************************************)
\* table.loc[table["city"] == city, ["date", "temperature"]]
Part(table, city) == SelectSeq(table, LAMBDA r : r.city = city)

\* part.set_index("date")["temperature"]: a Series of <<index, value>>
SetIndex(part) == [i \in 1..Len(part) |-> <<part[i].date, part[i].temperature>>]

\* one entry put in its place in a Series already sorted by index
RECURSIVE InsertSorted(_, _)
InsertSorted(e, s) ==
    IF s = <<>> THEN <<e>>
    ELSE IF s[Len(s)][1] <= e[1] THEN Append(s, e)
    ELSE Append(InsertSorted(e, SubSeq(s, 1, Len(s) - 1)), s[Len(s)])

\* .sort_index()
RECURSIVE SortIndex(_)
SortIndex(s) ==
    IF s = <<>> THEN <<>>
    ELSE InsertSorted(s[Len(s)], SortIndex(SubSeq(s, 1, Len(s) - 1)))

IndexOf(s) == {s[i][1] : i \in 1..Len(s)}

IndexMin(s) == CHOOSE d \in IndexOf(s) : \A e \in IndexOf(s) : d <= e
IndexMax(s) == CHOOSE d \in IndexOf(s) : \A e \in IndexOf(s) : e <= d

\* Index.is_unique
IsUnique(s) == \A i, j \in 1..Len(s) : s[i][1] = s[j][1] => i = j

\* date_range(start, end, freq="D")
DateRange(start, end) == [i \in 1..(end - start + 1) |-> start + i - 1]

\* s.reindex(dti) of a Series with a unique index: the value of each label of
\* dti, NaN where s has none
Reindex(s, dti) ==
    [i \in 1..Len(dti) |->
        IF dti[i] \in IndexOf(s)
           THEN <<dti[i], s[CHOOSE j \in 1..Len(s) : s[j][1] = dti[i]][2]>>
           ELSE <<dti[i], NaN>>]

\* AsFreq with the reindexing left out: the days without a record are not added
AsFreqNoReindex(s) == s

\* .asfreq("D") of a Series with a unique index; an empty one stays empty
AsFreq(s) == IF s = <<>> THEN <<>> ELSE Reindex(s, DateRange(IndexMin(s), IndexMax(s)))

\* NpInterp that carries the earlier value forward instead of weighting
NpInterpPad(lo, hi, k, g) == lo

\* np.interp between two neighbouring points, k of g days after the first:
\* slope*(x - x_lo) + y_lo, and with a NaN result the other direction
NpInterp(lo, hi, k, g) ==
    IF IsFinite(lo) /\ IsFinite(hi)
       THEN <<(hi[1] * lo[2] - lo[1] * hi[2]) * k + lo[1] * hi[2] * g,
              lo[2] * hi[2] * g>>
    ELSE IF ~IsFinite(lo) /\ ~IsFinite(hi)
            THEN (IF lo = hi THEN lo ELSE NaN)
    ELSE IF IsFinite(hi) THEN lo ELSE hi

Valid(s) == {i \in 1..Len(s) : ~IsNaN(s[i][2])}

\* .interpolate("time"): a NaN between two known values is filled on the line
\* between them over the index; one after the last known value takes that
\* value; one before the first known value stays NaN
Interpolate(s) ==
    [i \in 1..Len(s) |->
        IF i \in Valid(s) THEN s[i]
        ELSE LET before == {j \in Valid(s) : j < i}
                 after  == {j \in Valid(s) : j > i}
             IN  IF before = {} THEN s[i]
                 ELSE LET p == CHOOSE j \in before : \A q \in before : q <= j
                      IN  IF after = {} THEN <<s[i][1], s[p][2]>>
                          ELSE LET n == CHOOSE j \in after : \A q \in after : j <= q
                               IN  <<s[i][1],
                                     NpInterp(s[p][2], s[n][2],
                                              s[i][1] - s[p][1], s[n][1] - s[p][1])>>]

\* the exceptions the run can end with
NoError == ""
ReindexError == "ValueError: cannot reindex on an axis with duplicate labels"
KeyError == "KeyError"
NoDataError(city) ==
    IF city = Astana THEN "ValueError: no data for city Astana"
    ELSE "ValueError: no data for city Almaty"

\* MakeSeriesError without the check of line 115 for an empty part
MakeSeriesErrorNoEmptyCheck(table, city) ==
    IF ~IsUnique(SetIndex(Part(table, city))) THEN ReindexError ELSE NoError

\* make_series(table, city): the exception it raises, NoError when it returns
MakeSeriesError(table, city) ==
    IF Part(table, city) = <<>> THEN NoDataError(city)
    ELSE IF ~IsUnique(SetIndex(Part(table, city))) THEN ReindexError
    ELSE NoError

\* make_series(table, city): the Series it returns
make_series(table, city) ==
    Interpolate(AsFreq(SortIndex(SetIndex(Part(table, city)))))

(***************************************************************************)
(* The comfort decision, lines 126-147                                     *)
(***************************************************************************)
season_by_month(m) ==
    IF m \in {12, 1, 2} THEN "winter"
    ELSE IF m \in {6, 7, 8} THEN "summer"
    ELSE "shoulder"

\* s.dropna().index.max()
LastKnown(s) ==
    IF Valid(s) = {} THEN NaT
    ELSE s[CHOOSE i \in Valid(s) : \A j \in Valid(s) : s[j][1] <= s[i][1]][1]

Min(a, b) == IF b < a THEN b ELSE a

\* ComparisonDate that takes the later of the two dates
ComparisonDateLater(a, b) == IF LastKnown(a) < LastKnown(b) THEN LastKnown(b) ELSE LastKnown(a)

\* min(s_ast.dropna().index.max(), s_alm.dropna().index.max())
ComparisonDate(a, b) == Min(LastKnown(a), LastKnown(b))

\* HasLabel that only checks the date against the end of the index
HasLabelUpTo(s, d) == d <= IndexMax(s)

\* d is a label of s
HasLabel(s, d) == d \in IndexOf(s)

\* s.loc[d]: the value at label d.  A label s does not have raises KeyError,
\* which Evaluate decides with HasLabel before it reads the value
Loc(s, d) ==
    LET at == {i \in 1..Len(s) : s[i][1] = d}
    IN  IF at = {} THEN NaN ELSE s[CHOOSE i \in at : TRUE][2]

target == 20

\* WinterWinner that gives a tie to Astana
WinterWinnerOrEqual(a, b) == IF Le(b, a) THEN "Astana" ELSE "Almaty"

\* line 137
WinterWinner(a, b) == IF Gt(a, b) THEN "Astana" ELSE "Almaty"

\* line 140
SummerWinner(a, b) == IF Lt(a, b) THEN "Astana" ELSE "Almaty"

\* ShoulderWinner that gives a tie to Almaty
ShoulderWinnerStrict(a, b) ==
    IF Lt(FAbs(FSub(a, Num(target))), FAbs(FSub(b, Num(target))))
       THEN "Astana" ELSE "Almaty"

\* lines 143-144
ShoulderWinner(a, b) ==
    IF Le(FAbs(FSub(a, Num(target))), FAbs(FSub(b, Num(target))))
       THEN "Astana" ELSE "Almaty"

Decide(s, a, b) ==
    IF s = "winter" THEN WinterWinner(a, b)
    ELSE IF s = "summer" THEN SummerWinner(a, b)
    ELSE ShoulderWinner(a, b)

(***************************************************************************)
(* The run                                                                 *)
(***************************************************************************)
\* lines 94-95: strip both text columns, resolve the city aliases
StripAndAlias ==
    /\ pc = "strip"
    /\ df' = [i \in 1..Len(df) |->
                [df[i] EXCEPT !.date = Strip(@), !.city = ReplaceAlias(Strip(@))]]
    /\ pc' = "filter"
    /\ UNCHANGED <<parsed_dates, printed, s_ast, s_alm, last_date, t_ast, t_alm,
                   season, winner, err>>

\* lines 97-98: drop the rows whose date is one of bad_tokens
FilterBadTokens ==
    /\ pc = "filter"
    /\ \E none_matches_na \in BOOLEAN :
          df' = SelectSeq(df, LAMBDA r : ~IsIn(r.date, none_matches_na))
    /\ pc' = "parse"
    /\ UNCHANGED <<parsed_dates, printed, s_ast, s_alm, last_date, t_ast, t_alm,
                   season, winner, err>>

\* the rows of table whose parsed date is a date, the date put in its column
RECURSIVE WithDates(_)
WithDates(table) ==
    IF table = <<>> THEN <<>>
    ELSE LET r == table[Len(table)]
             rest == WithDates(SubSeq(table, 1, Len(table) - 1))
         IN  IF ToDatetime(r.date) = NaT THEN rest
             ELSE Append(rest, [r EXCEPT !.date = ToDatetime(r.date)])

\* df.loc[bad_mask, "date"]: the date texts that did not parse
RECURSIVE BadDates(_)
BadDates(table) ==
    IF table = <<>> THEN <<>>
    ELSE LET r == table[Len(table)]
             rest == BadDates(SubSeq(table, 1, Len(table) - 1))
         IN  IF ToDatetime(r.date) = NaT THEN Append(rest, r.date) ELSE rest

\* lines 100-108: parse the dates, print the first ten that did not parse,
\* drop their rows, put the parsed dates in the date column
ParseDates ==
    /\ pc = "parse"
    /\ printed' = Head10(BadDates(df))
    /\ df' = WithDates(df)
    /\ parsed_dates' = [i \in 1..Len(WithDates(df)) |-> WithDates(df)[i].date]
    /\ pc' = "numeric"
    /\ UNCHANGED <<s_ast, s_alm, last_date, t_ast, t_alm, season, winner, err>>

\* line 109: the temperature column as numbers
CoerceTemperature ==
    /\ pc = "numeric"
    /\ df' = [i \in 1..Len(df) |-> [df[i] EXCEPT !.temperature = ToNumeric(@)]]
    /\ pc' = "dropna"
    /\ UNCHANGED <<parsed_dates, printed, s_ast, s_alm, last_date, t_ast, t_alm,
                   season, winner, err>>

\* HasMissing that leaves the temperature out
HasMissingDateOrCity(r) == r.date = NaT \/ r.city = NA

\* one row of the typed table has a missing value in date, city or temperature
HasMissing(r) == r.date = NaT \/ r.city = NA \/ IsNaN(r.temperature)

\* line 110: df.dropna(subset=["date", "city", "temperature"])
DropNa ==
    /\ pc = "dropna"
    /\ df' = SelectSeq(df, LAMBDA r : ~HasMissing(r))
    /\ pc' = "make_ast"
    /\ UNCHANGED <<parsed_dates, printed, s_ast, s_alm, last_date, t_ast, t_alm,
                   season, winner, err>>

\* line 122: s_ast = make_series(df, "Astana")
MakeSeriesAst ==
    /\ pc = "make_ast"
    /\ IF MakeSeriesError(df, Astana) /= NoError
          THEN /\ err' = MakeSeriesError(df, Astana)
               /\ pc' = "aborted"
               /\ UNCHANGED s_ast
          ELSE /\ s_ast' = make_series(df, Astana)
               /\ pc' = "make_alm"
               /\ UNCHANGED err
    /\ UNCHANGED <<df, parsed_dates, printed, s_alm, last_date, t_ast, t_alm,
                   season, winner>>

\* line 123: s_alm = make_series(df, "Almaty")
MakeSeriesAlm ==
    /\ pc = "make_alm"
    /\ IF MakeSeriesError(df, Almaty) /= NoError
          THEN /\ err' = MakeSeriesError(df, Almaty)
               /\ pc' = "aborted"
               /\ UNCHANGED s_alm
          ELSE /\ s_alm' = make_series(df, Almaty)
               /\ pc' = "evaluate"
               /\ UNCHANGED err
    /\ UNCHANGED <<df, parsed_dates, printed, s_ast, last_date, t_ast, t_alm,
                   season, winner>>

\* lines 131-147: the comparison date, the two temperatures read at it (a
\* KeyError when a series has no such label), the season and the winner
Evaluate ==
    /\ pc = "evaluate"
    /\ last_date' = ComparisonDate(s_ast, s_alm)
    /\ IF HasLabel(s_ast, last_date') /\ HasLabel(s_alm, last_date')
          THEN /\ t_ast' = Loc(s_ast, last_date')
               /\ t_alm' = Loc(s_alm, last_date')
               /\ season' = season_by_month(MonthOf(last_date'))
               /\ winner' = Decide(season', t_ast', t_alm')
               /\ pc' = "plot"
               /\ UNCHANGED err
          ELSE /\ err' = KeyError
               /\ t_ast' = IF HasLabel(s_ast, last_date')
                              THEN Loc(s_ast, last_date') ELSE t_ast
               /\ pc' = "aborted"
               /\ UNCHANGED <<t_alm, season, winner>>
    /\ UNCHANGED <<df, parsed_dates, printed, s_ast, s_alm>>

\* lines 150-171: the chart
Plot ==
    /\ pc = "plot"
    /\ pc' = "done"
    /\ UNCHANGED <<df, parsed_dates, printed, s_ast, s_alm, last_date, t_ast, t_alm,
                   season, winner, err>>

(***************************************************************************)
(* The rows the run starts from                                            *)
(***************************************************************************)
MaxRows == 2
MaxRecs == 3
MaxOff == 3

\* date cells as read_csv returns them
RawDates ==
    {NA, <<" ", " ">>, <<" ", "n", "a", "n">>, <<"N", "a", "N", " ">>, <<".", ".", ".">>,
     <<"U+2014">>, <<"-">>, <<"N", "A", "N">>, <<"N", "a", "n">>, <<"a", "b", "c">>,
     <<"2", "0", "2", "4", "-", "0", "2", "-", "3", "0">>,
     <<" ", "0", "1", ".", "0", "3", ".", "2", "0", "2", "4">>}

GoodDates ==
    {<<"2", "0", "2", "4", "-", "0", "2", "-", "2", "8">>,
     <<"2", "9", "/", "0", "2", "/", "2", "0", "2", "4">>,
     <<"0", "2", ".", "0", "3", ".", "2", "0", "2", "4">>}

RawCities ==
    {NA, Astana, <<" ", "A", "l", "m", "a", "t", "y", " ">>, AliasAstana1, AliasAlmaty2,
     <<"P", "a", "r", "i", "s">>}

RawTemps ==
    {NA, <<"a", "b", "c">>, <<"1", "8">>, <<"2", "2", ".", "5">>, <<"-", "5">>,
     <<"i", "n", "f">>, <<"-", "I", "n", "f">>}

Feb28 == <<"2", "0", "2", "4", "-", "0", "2", "-", "2", "8">>

RawRows ==
    [date : RawDates, city : {Astana}, temperature : {<<"1", "8">>}]
    \cup [date : {Feb28}, city : RawCities, temperature : {<<"1", "8">>}]
    \cup [date : {Feb28}, city : {Astana}, temperature : RawTemps]
    \cup [date : GoodDates, city : {Astana, <<" ", "A", "l", "m", "a", "t", "y", " ">>},
          temperature : {<<"1", "8">>, <<"2", "2", ".", "5">>}]

Init ==
    /\ pc = "strip"
    /\ df \in UNION {[1..n -> RawRows] : n \in 0..MaxRows}
    /\ parsed_dates = <<>>
    /\ printed = <<>>
    /\ s_ast = NoSeries
    /\ s_alm = NoSeries
    /\ last_date = NaT
    /\ t_ast = NaN
    /\ t_alm = NaN
    /\ season = ""
    /\ winner = ""
    /\ err = NoError

Next ==
    \/ StripAndAlias
    \/ FilterBadTokens
    \/ ParseDates
    \/ CoerceTemperature
    \/ DropNa
    \/ MakeSeriesAst
    \/ MakeSeriesAlm
    \/ Evaluate
    \/ Plot

Spec == Init /\ [][Next]_vars

\* the tables the normaliser hands to make_series: typed rows of the two
\* cities, dated within a few days of a month's end; the temperatures are
\* finite but for the two infinities pd.to_numeric reads from "inf" and "-inf"
Origins == {Ordinal(2024, 2, 28), Ordinal(2024, 8, 30)}

Temps == {18, 22}

CleanRows(origin) ==
    [date : origin..(origin + MaxOff), city : {Astana, Almaty},
     temperature : {Num(t) : t \in Temps}]
    \cup {[date |-> origin, city |-> Astana, temperature |-> PosInf],
          [date |-> origin + MaxOff, city |-> Astana, temperature |-> NegInf]}

InitClean ==
    /\ pc = "make_ast"
    /\ \E origin \in Origins :
          df \in UNION {[1..n -> CleanRows(origin)] : n \in 0..MaxRecs}
    /\ parsed_dates = [i \in 1..Len(df) |-> df[i].date]
    /\ printed = <<>>
    /\ s_ast = NoSeries
    /\ s_alm = NoSeries
    /\ last_date = NaT
    /\ t_ast = NaN
    /\ t_alm = NaN
    /\ season = ""
    /\ winner = ""
    /\ err = NoError

NextClean ==
    \/ MakeSeriesAst
    \/ MakeSeriesAlm
    \/ Evaluate
    \/ Plot

SpecClean == InitClean /\ [][NextClean]_vars

(***************************************************************************)
(* Properties                                                              *)
(***************************************************************************)
TwoCities == {Astana, Almaty}

SeriesOf(city) == IF city = Astana THEN s_ast ELSE s_alm

\* the rows of the typed table that belong to city
RowsOf(city) == {i \in 1..Len(df) : df[i].city = city}

RecordDates(city) == {df[i].date : i \in RowsOf(city)}

SetMin(S) == CHOOSE d \in S : \A e \in S : d <= e
SetMax(S) == CHOOSE d \in S : \A e \in S : e <= d

\* the statements after the comparison date has been taken
Evaluated == pc \in {"plot", "done"} \/ (pc = "aborted" /\ err = KeyError)

BothBuilt == s_ast /= NoSeries /\ s_alm /= NoSeries

\* the last date on which series s holds a value that is not NaN
LastKnownDate(s) == SetMax({s[i][1] : i \in {j \in 1..Len(s) : ~IsNaN(s[j][2])}})

\* C1: a series make_series returned has one entry for each calendar day from
\* the first to the last date of that city's records and no other entry: its
\* dates go up one day at a time and its length is the number of days of the
\* range.
C1_SeriesCoversRange ==
    \A city \in TwoCities :
        LET s == SeriesOf(city)
            D == RecordDates(city)
        IN  s /= NoSeries =>
                /\ D /= {}
                /\ Len(s) = SetMax(D) - SetMin(D) + 1
                /\ \A i \in 1..Len(s) : s[i][1] = SetMin(D) + (i - 1)

C1_Witness ==
    /\ s_ast /= NoSeries
    /\ Len(s_ast) = 4
    /\ Cardinality(RecordDates(Astana)) = 2

\* C2: in winter (month 12, 1, 2) the winner is Astana exactly when Astana is
\* strictly warmer, in summer (month 6, 7, 8) exactly when Astana is strictly
\* cooler; in every other case of the two seasons, equality included, the
\* winner is Almaty.
C2_WinterSummerRule ==
    pc \in {"plot", "done"} =>
        LET m == MonthOf(last_date)
        IN  /\ m \in {12, 1, 2} =>
                 /\ winner = "Astana" <=> Gt(t_ast, t_alm)
                 /\ winner /= "Astana" => winner = "Almaty"
            /\ m \in {6, 7, 8} =>
                 /\ winner = "Astana" <=> Lt(t_ast, t_alm)
                 /\ winner /= "Astana" => winner = "Almaty"

C2_Witness ==
    /\ pc = "plot"
    /\ MonthOf(last_date) = 2
    /\ FEq(t_ast, t_alm)
    /\ winner = "Almaty"

\* the distance of a temperature from 20 degrees
DistanceFrom20(t) == FAbs(FSub(t, Num(20)))

\* C3: in the shoulder season (month 3, 4, 5, 9, 10, 11) the winner is the city
\* whose temperature is closer to 20.0, and Astana when both are equally close.
C3_ShoulderRule ==
    (pc \in {"plot", "done"} /\ MonthOf(last_date) \in {3, 4, 5, 9, 10, 11}) =>
        /\ Lt(DistanceFrom20(t_ast), DistanceFrom20(t_alm)) => winner = "Astana"
        /\ Lt(DistanceFrom20(t_alm), DistanceFrom20(t_ast)) => winner = "Almaty"
        /\ FEq(DistanceFrom20(t_ast), DistanceFrom20(t_alm)) => winner = "Astana"

C3_Witness ==
    /\ pc = "plot"
    /\ MonthOf(last_date) = 3
    /\ FEq(DistanceFrom20(t_ast), DistanceFrom20(t_alm))
    /\ ~FEq(t_ast, t_alm)
    /\ winner = "Astana"

\* the "no data" date texts: empty, ellipsis, em-dash, hyphen, "nan" in any
\* letter case, and the missing value
IsSentinel(t) ==
    \/ t = NA
    \/ t \in {<<>>, <<".", ".", ".">>, <<"U+2014">>, <<"-">>}
    \/ [i \in 1..Len(t) |-> Lower(t[i])] = <<"n", "a", "n">>

\* C4: every row whose stripped date is a "no data" sentinel is removed before
\* the dates are parsed, so that no sentinel is among the dates handed to the
\* parser nor among the unparseable dates printed.
C4_NoSentinelReachesParser ==
    /\ pc = "parse" => \A i \in 1..Len(df) : ~IsSentinel(df[i].date)
    /\ \A i \in 1..Len(printed) : ~IsSentinel(printed[i])

\* series s holds a value that is not NaN on date d
HoldsValue(s, d) == \E i \in 1..Len(s) : s[i][1] = d /\ ~IsNaN(s[i][2])

ValueOn(s, d) == s[CHOOSE i \in 1..Len(s) : s[i][1] = d][2]

\* C5 as stated: once both series are built and the comparison date is taken,
\* it is the earlier of the two last known dates, both series hold a known
\* value on it, and these are the two values compared.
C5_BothHoldValue ==
    (BothBuilt /\ Evaluated) =>
        /\ last_date = Min(LastKnownDate(s_ast), LastKnownDate(s_alm))
        /\ HoldsValue(s_ast, last_date)
        /\ HoldsValue(s_alm, last_date)
        /\ t_ast = ValueOn(s_ast, last_date)
        /\ t_alm = ValueOn(s_alm, last_date)

AllFinite == \A i \in 1..Len(df) : IsFinite(df[i].temperature)

\* C5 amended: once both series are built and the comparison date is taken, it
\* is the earlier of the two last known dates; when it is a date of both
\* series, the two values compared are the series' values on it, known values
\* when every recorded temperature is finite; when it is not, nothing is
\* compared.
C5_ValuesAtComparisonDate ==
    (BothBuilt /\ Evaluated) =>
        /\ last_date = Min(LastKnownDate(s_ast), LastKnownDate(s_alm))
        /\ IF last_date \in IndexOf(s_ast) /\ last_date \in IndexOf(s_alm)
              THEN /\ pc \in {"plot", "done"}
                   /\ t_ast = ValueOn(s_ast, last_date)
                   /\ t_alm = ValueOn(s_alm, last_date)
                   /\ AllFinite => (~IsNaN(t_ast) /\ ~IsNaN(t_alm))
              ELSE pc = "aborted" /\ winner = ""

C5_Witness ==
    /\ pc = "plot"
    /\ last_date < LastKnownDate(s_ast)
    /\ last_date \notin RecordDates(Astana)
    /\ IsFinite(t_ast)
    /\ IsFinite(t_alm)

\* series s has no known value on or before date d
NoKnownUpTo(s, d) == \A i \in 1..Len(s) : ~IsNaN(s[i][2]) => s[i][1] > d

\* C6: when one of the series has no known value on or before the comparison
\* date, the run ends with an error at the evaluation and emits no winner.
C6_MisalignedAborts ==
    (/\ BothBuilt
     /\ pc /= "evaluate"
     /\ LET cd == Min(LastKnownDate(s_ast), LastKnownDate(s_alm))
        IN  NoKnownUpTo(s_ast, cd) \/ NoKnownUpTo(s_alm, cd))
    => (pc = "aborted" /\ err = KeyError /\ winner = "" /\ season = "")

C6_Witness ==
    /\ pc = "aborted"
    /\ err = KeyError
    /\ BothBuilt
    /\ SetMin(RecordDates(Astana)) > SetMax(RecordDates(Almaty))

\* C7: with no record of a requested city in the cleaned table, make_series
\* raises the error that names the city and returns no series, and the run ends
\* there: the other series (when Astana is the one missing), the decision and
\* the chart are not reached.
C7_NoDataAborts ==
    /\ (RowsOf(Astana) = {} /\ pc /= "make_ast") =>
          /\ pc = "aborted"
          /\ err = "ValueError: no data for city Astana"
          /\ s_ast = NoSeries
          /\ s_alm = NoSeries
          /\ winner = ""
    /\ (RowsOf(Almaty) = {} /\ s_ast /= NoSeries /\ pc /= "make_alm") =>
          /\ pc = "aborted"
          /\ err = "ValueError: no data for city Almaty"
          /\ s_alm = NoSeries
          /\ winner = ""

C7_Witness ==
    /\ pc = "aborted"
    /\ err = "ValueError: no data for city Astana"
    /\ RowsOf(Almaty) /= {}
    /\ s_alm = NoSeries

\* make_series has run for city
SeriesStepTaken(city) ==
    IF city = Astana THEN pc /= "make_ast"
    ELSE s_ast /= NoSeries /\ pc /= "make_alm"

HasDuplicateDate(city) ==
    \E i, j \in RowsOf(city) : i /= j /\ df[i].date = df[j].date

\* the temperature of the last row of city dated d
LastRecorded(city, d) ==
    df[SetMax({i \in RowsOf(city) : df[i].date = d})].temperature

\* C8: when the records of a city hold a date twice, make_series still returns
\* a series, with one value for that date, that of the row met last.
C8_DuplicatesLastWins ==
    \A city \in TwoCities :
        (HasDuplicateDate(city) /\ SeriesStepTaken(city)) =>
            /\ SeriesOf(city) /= NoSeries
            /\ \A d \in RecordDates(city) :
                  /\ Cardinality({i \in 1..Len(SeriesOf(city)) : SeriesOf(city)[i][1] = d}) = 1
                  /\ ValueOn(SeriesOf(city), d) = LastRecorded(city, d)

\* the statements after the normaliser
Normalised == pc \in {"make_ast", "make_alm", "evaluate", "plot", "done", "aborted"}

\* C9 as stated: every record the normaliser lets through has a parsed date,
\* one of the two canonical cities, and a finite temperature.
C9_CanonicalFinite ==
    Normalised =>
        \A i \in 1..Len(df) :
            /\ df[i].date /= NaT
            /\ df[i].city \in TwoCities
            /\ IsFinite(df[i].temperature)

\* C9 amended: every record the normaliser lets through has a parsed date, a
\* city that is present, stripped and no alias (an unmapped name is kept as it
\* is), and a temperature that is a number, which may be infinite.
C9_NoFieldMissing ==
    Normalised =>
        \A i \in 1..Len(df) :
            /\ df[i].date > 0
            /\ df[i].city /= NA
            /\ df[i].city \notin {AliasAstana1, AliasAstana2, AliasAlmaty1, AliasAlmaty2}
            /\ (df[i].city /= <<>> =>
                    (df[i].city[1] /= " " /\ df[i].city[Len(df[i].city)] /= " "))
            /\ ~IsNaN(df[i].temperature)

C9_Witness ==
    /\ pc = "make_ast"
    /\ \E i \in 1..Len(df) : df[i].city = <<"P", "a", "r", "i", "s">>
    /\ \E i \in 1..Len(df) : df[i].temperature = PosInf

\* v lies between a and b, the ends included
Between(v, a, b) == (Le(a, v) /\ Le(v, b)) \/ (Le(b, v) /\ Le(v, a))

\* v is the value k of g days along the line from lo to hi (finite values)
OnLine(v, lo, hi, k, g) ==
    (v[1] * lo[2] - lo[1] * v[2]) * g * hi[2] = (hi[1] * lo[2] - lo[1] * hi[2]) * k * v[2]

OppositeInfinities(a, b) == {a, b} = {PosInf, NegInf}

\* the clause of C10 for the days that have a record
RecordedKept(city) ==
    \A i \in RowsOf(city) : ValueOn(SeriesOf(city), df[i].date) = df[i].temperature

\* C10 as stated: in a built series a day without a record, between two days
\* with records, holds a value between the nearest known values on either
\* side, and a day with a record holds its record.
C10_FilledBetween ==
    \A city \in TwoCities :
        LET s == SeriesOf(city)
            D == RecordDates(city)
        IN  s /= NoSeries =>
                /\ RecordedKept(city)
                /\ \A i \in 1..Len(s) :
                      s[i][1] \notin D =>
                          LET p == SetMax({d \in D : d < s[i][1]})
                              n == SetMin({d \in D : d > s[i][1]})
                          IN  Between(s[i][2], ValueOn(s, p), ValueOn(s, n))

\* C10 amended: the same, the value being the one the elapsed days give on the
\* line between the two known values when these are finite, and the day being
\* left without a value when they are the two opposite infinities.
C10_FilledOnLine ==
    \A city \in TwoCities :
        LET s == SeriesOf(city)
            D == RecordDates(city)
        IN  s /= NoSeries =>
                /\ RecordedKept(city)
                /\ \A i \in 1..Len(s) :
                      s[i][1] \notin D =>
                          LET p == SetMax({d \in D : d < s[i][1]})
                              n == SetMin({d \in D : d > s[i][1]})
                              lo == ValueOn(s, p)
                              hi == ValueOn(s, n)
                          IN  /\ OppositeInfinities(lo, hi) => IsNaN(s[i][2])
                              /\ ~OppositeInfinities(lo, hi) => Between(s[i][2], lo, hi)
                              /\ (IsFinite(lo) /\ IsFinite(hi)) =>
                                    /\ IsFinite(s[i][2])
                                    /\ OnLine(s[i][2], lo, hi, s[i][1] - p, n - p)

C10_Witness ==
    /\ s_ast /= NoSeries
    /\ Len(s_ast) = 4
    /\ Cardinality(RecordDates(Astana)) = 2
    /\ IsFinite(s_ast[1][2])
    /\ IsFinite(s_ast[4][2])
    /\ Lt(s_ast[1][2], s_ast[2][2])
    /\ Lt(s_ast[2][2], s_ast[3][2])
    /\ Lt(s_ast[3][2], s_ast[4][2])

====
